---- MODULE Spec2Model ----
(***************************************************************************)
(* A model of src/event_bus.go: the EventBus dispatcher.                   *)
(*                                                                         *)
(* bus.handlers is a Go map from topic to a slice of *eventHandler.  A     *)
(* slice is a window (length) on a backing array; removeHandler shifts the *)
(* array in place and Publish ranges over the slice header it read when it *)
(* began, so both the array and the length are state.  Goroutines started  *)
(* by Publish run doPublishAsync without bus.lock; every access they make  *)
(* to shared memory is a step of its own.                                  *)
(***************************************************************************)
EXTENDS Integers, Sequences, FiniteSets, TLC

\* ----------------------------------------------------------------- bounds
\* Concurrent callers (Spec, FairSpec)
MaxHandlers == 1      \* successful Subscribe* calls (eventHandler objects allocated)
MaxPublish == 2       \* Publish calls
MaxTasks == 2         \* goroutines started by Publish
MaxWaits == 1         \* WaitAsync calls
\* A caller of synchronous handlers (SyncSpec)
MaxSyncHandlers == 3  \* successful Subscribe and SubscribeOnce calls
MaxSyncPublish == 2   \* Publish calls
\* A caller that registers and unregisters (RegSpec)
MaxRegHandlers == 2   \* successful Subscribe* calls
\* Callers of asynchronous handlers that publish with any arguments (ArgSpec)
MaxArgHandlers == 1   \* successful SubscribeAsync and SubscribeOnceAsync calls
MaxArgPublish == 2    \* Publish calls
MaxArgTasks == 2      \* goroutines started by Publish
MaxArgWaits == 1      \* WaitAsync calls
\* Callers that publish to handlers whose bodies may never return (PubSpec)
MaxPubHandlers == 2   \* successful Subscribe* calls
MaxPubPublish == 2    \* Publish calls
MaxPubTasks == 2      \* goroutines started by Publish
\* A caller whose synchronous handlers call the bus themselves (NestSpec)
MaxNestHandlers == 2  \* successful Subscribe and SubscribeOnce calls
MaxNestPublish == 2   \* Publish calls

Topics == {"t", "u"}
Callbacks == {"f", "g"}                       \* function values, by identity
Values == Callbacks \cup {"String", "nil"}    \* what a caller may pass as fn

NoArg == "-"

\* Publish passes any number of arguments; the registered functions are of
\* type func(), and reflect's Call panics unless it is given exactly as many
\* arguments as the function has parameters.
ArgCounts == {0, 1}
NumIn(fn) == 0
CallPanics(fn, nargs) == nargs # NumIn(fn)

\* reflect.TypeOf(fn): nil for the nil interface, else the dynamic type's kind.
TypeOfKind(fn) ==
  IF fn \in Callbacks THEN "Func" ELSE IF fn = "nil" THEN "nil" ELSE "String"

\* --------------------------------------------------------------- the state
VARIABLES
  handlers,   \* bus.handlers: topic -> [ok, arr, len]: key present, backing array, slice length
  hs,         \* the eventHandler objects, by address 1..Len(hs)
  lock,       \* bus.lock is held
  wg,         \* bus.wg's counter
  pub,        \* the Publish call holding bus.lock: position in its range loop
  tasks,      \* the goroutines started by `go bus.doPublishAsync`
  waiter,     \* a caller of WaitAsync
  crashed,    \* a goroutine panicked: the process is gone
  calls,      \* history: how often each handler's callback body was entered
  gone,       \* history: what took each handler out of its topic's slice
  last        \* history: the step just taken and what it returned

vars == <<handlers, hs, lock, wg, pub, tasks, waiter, crashed, calls, gone, last>>

Handler(cb, once, async, tx) ==
  [callBack |-> cb, flagOnce |-> once, async |-> async, transactional |-> tx,
   called |-> FALSE, mu |-> FALSE]

\* The slice of a topic in a map value, as a sequence of handler addresses.
ListOf(hmap, topic) == SubSeq(hmap[topic].arr, 1, hmap[topic].len)

\* The slice bus.handlers[topic].
List(topic) == ListOf(handlers, topic)

Step(op, topic, fn, res) == [op |-> op, topic |-> topic, fn |-> fn, res |-> res]

\* New(): empty map, unlocked, counter zero.
Init ==
  /\ handlers = [t \in Topics |-> [ok |-> FALSE, arr |-> <<>>, len |-> 0]]
  /\ hs = <<>>
  /\ lock = FALSE
  /\ wg = 0
  /\ pub = [pc |-> "idle", topic |-> NoArg, nargs |-> 0, n |-> 0, idx |-> 0, cur |-> 0,
            no |-> 0, start |-> <<>>, inv |-> <<>>]
  /\ tasks = <<>>
  /\ waiter = [pc |-> "idle", snap |-> {}, no |-> 0]
  /\ crashed = FALSE
  /\ calls = <<>>
  /\ gone = <<>>
  /\ last = Step("New", NoArg, NoArg, "ok")

\* ------------------------------------------------------------ slice helpers
\* append(s, h): writes in place when the array has room past len, else grows.
AppendSlice(s, h) ==
  [ok |-> TRUE,
   arr |-> IF s.len < Len(s.arr) THEN [s.arr EXCEPT ![s.len + 1] = h]
           ELSE Append(s.arr, h),
   len |-> s.len + 1]

\* append(s[:i], s[i+1:]...) for the 1-based position i <= len: the elements
\* after i move one place left in the same array; the last place keeps its value.
RemoveAt(s, i) ==
  [ok |-> TRUE,
   arr |-> [j \in 1..Len(s.arr) |->
              IF j >= i /\ j < s.len THEN s.arr[j + 1] ELSE s.arr[j]],
   len |-> s.len - 1]

findHandlerIdxLast(hmap, H, topic, callback) ==
  LET s == hmap[topic]
      hit == {j \in 1..s.len : H[s.arr[j]].callBack = callback}
  IN IF s.ok /\ hit # {} THEN CHOOSE j \in hit : \A k \in hit : j >= k ELSE 0

\* findHandlerIdx: position of the first handler of the topic whose callBack
\* equals callback; 0 stands for the code's -1.
findHandlerIdx(hmap, H, topic, callback) ==
  LET s == hmap[topic]
      hit == {j \in 1..s.len : H[s.arr[j]].callBack = callback}
  IN IF s.ok /\ hit # {} THEN CHOOSE j \in hit : \A k \in hit : j <= k ELSE 0

\* History: the handler a removal at position i takes out, recorded with who did it.
Taken(g, s, i, who) == IF i > 0 /\ i <= s.len THEN [g EXCEPT ![s.arr[i]] = who] ELSE g

\* removeHandler, as one step (the caller holds bus.lock).
removeHandler(hmap, H, topic, callback) ==
  LET i == findHandlerIdx(hmap, H, topic, callback)
  IN IF i > 0 THEN [hmap EXCEPT ![topic] = RemoveAt(hmap[topic], i)] ELSE hmap

\* ------------------------------------------------------------- registration
\* The body shared by Subscribe, SubscribeAsync, SubscribeOnce and
\* SubscribeOnceAsync, all under bus.lock: reflect.TypeOf(fn).Kind() panics on
\* the nil interface (TypeOf returns nil); a non-function returns an error; a
\* function is wrapped in a new eventHandler appended to the topic's slice.
\* The deferred Unlock runs on every path, so a caller that recovers from the
\* panic finds the bus unlocked.
doSubscribe(op, topic, fn, once, async, tx) ==
  /\ ~crashed /\ ~lock
  /\ IF TypeOfKind(fn) = "nil"
       THEN /\ last' = Step(op, topic, fn, "panic")
            /\ UNCHANGED <<handlers, hs, calls, gone>>
     ELSE IF TypeOfKind(fn) # "Func"
       THEN /\ last' = Step(op, topic, fn, "err")
            /\ UNCHANGED <<handlers, hs, calls, gone>>
     ELSE /\ hs' = Append(hs, Handler(fn, once, async, tx))
          /\ calls' = Append(calls, 0)
          /\ gone' = Append(gone, NoArg)
          /\ handlers' = [handlers EXCEPT ![topic] = AppendSlice(@, Len(hs) + 1)]
          /\ last' = Step(op, topic, fn, "nil")
  /\ UNCHANGED <<lock, wg, pub, tasks, waiter, crashed>>

Subscribe(topic, fn) == doSubscribe("Subscribe", topic, fn, FALSE, FALSE, FALSE)

SubscribeAsync(topic, fn, transactional) ==
  doSubscribe("SubscribeAsync", topic, fn, FALSE, TRUE, transactional)

SubscribeOnce(topic, fn) == doSubscribe("SubscribeOnce", topic, fn, TRUE, FALSE, FALSE)

SubscribeOnceAsync(topic, fn) ==
  doSubscribe("SubscribeOnceAsync", topic, fn, TRUE, TRUE, FALSE)

HasCallbackResultAnyKey(s) == s.ok

\* HasCallback: key present and slice not empty.
HasCallbackResult(s) == IF s.ok THEN s.len > 0 ELSE FALSE

HasCallback(topic) ==
  /\ ~crashed /\ ~lock
  /\ last' = Step("HasCallback", topic, NoArg,
                  IF HasCallbackResult(handlers[topic]) THEN "true" ELSE "false")
  /\ UNCHANGED <<handlers, hs, lock, wg, pub, tasks, waiter, crashed, calls, gone>>

UnsubscribeKnownAnyKey(s) == s.ok

\* Unsubscribe's test: `_, ok := bus.handlers[topic]; ok && len(bus.handlers[topic]) > 0`.
UnsubscribeKnown(s) == s.ok /\ s.len > 0

\* Unsubscribe: reflect.ValueOf(handler) is compared with each callBack; a
\* value that is no registered function equals none.
Unsubscribe(topic, handler) ==
  /\ ~crashed /\ ~lock
  /\ IF UnsubscribeKnown(handlers[topic])
       THEN /\ handlers' = removeHandler(handlers, hs, topic, handler)
            /\ gone' = Taken(gone, handlers[topic],
                             findHandlerIdx(handlers, hs, topic, handler), "Unsubscribe")
            /\ last' = Step("Unsubscribe", topic, handler, "nil")
       ELSE /\ last' = Step("Unsubscribe", topic, handler, "err")
            /\ UNCHANGED <<handlers, gone>>
  /\ UNCHANGED <<hs, lock, wg, pub, tasks, waiter, crashed, calls>>

\* ------------------------------------------------------------------ Publish
\* A step inside Publish, a goroutine or WaitAsync returns nothing to a caller.
Internal(op) == Step("-", NoArg, NoArg, NoArg)

\* Publish takes bus.lock and reads the slice header of the topic: the range
\* loop runs over that header's length, reading the shared array as it goes.
PublishBegin(topic, nargs) ==
  /\ ~crashed /\ ~lock /\ pub.pc = "idle"
  /\ lock' = TRUE
  /\ pub' = [pc |-> "range", topic |-> topic, nargs |-> nargs,
             n |-> IF handlers[topic].ok THEN handlers[topic].len ELSE 0,
             idx |-> 1, cur |-> 0, no |-> pub.no + 1,
             start |-> List(topic), inv |-> <<>>]
  /\ last' = Internal("PublishBegin")
  /\ UNCHANGED <<handlers, hs, wg, tasks, waiter, crashed, calls, gone>>

\* The handler the range loop reads at its position.
Current == handlers[pub.topic].arr[pub.idx]

\* Publish is left: bus.lock is released and the call's record is cleared.
PublishLeft == [pub EXCEPT !.pc = "idle", !.topic = NoArg, !.nargs = 0, !.n = 0,
                           !.idx = 0, !.start = <<>>, !.inv = <<>>]

\* A synchronous handler: doPublish inline, under bus.lock.  A once handler is
\* removed by callback first; one already called returns without a call.  A
\* Call that panics unwinds Publish through its deferred Unlock to the caller.
PublishSync ==
  /\ ~crashed /\ pub.pc = "range" /\ pub.idx <= pub.n
  /\ ~hs[Current].async
  /\ LET h == Current IN
     /\ handlers' = IF hs[h].flagOnce
                      THEN removeHandler(handlers, hs, pub.topic, hs[h].callBack)
                      ELSE handlers
     /\ gone' = IF hs[h].flagOnce
                  THEN Taken(gone, handlers[pub.topic],
                             findHandlerIdx(handlers, hs, pub.topic, hs[h].callBack),
                             "doPublish")
                  ELSE gone
     /\ IF hs[h].flagOnce /\ hs[h].called
          THEN /\ pub' = [pub EXCEPT !.idx = @ + 1]
               /\ last' = Internal("PublishSync")
               /\ UNCHANGED <<hs, calls, lock>>
        ELSE IF CallPanics(hs[h].callBack, pub.nargs)
          THEN /\ hs' = [hs EXCEPT ![h].called = TRUE]
               /\ pub' = PublishLeft
               /\ lock' = FALSE
               /\ last' = Step("Publish", pub.topic, NoArg, "panic")
               /\ UNCHANGED calls
        ELSE /\ hs' = [hs EXCEPT ![h].called = TRUE]
             /\ calls' = [calls EXCEPT ![h] = @ + 1]
             /\ pub' = [pub EXCEPT !.pc = "call", !.cur = h, !.inv = Append(@, h)]
             /\ last' = Internal("PublishSync")
             /\ UNCHANGED lock
  /\ UNCHANGED <<wg, tasks, waiter, crashed>>

\* The callback body of a synchronous handler returns; the loop moves on.
PublishCallReturn ==
  /\ ~crashed /\ pub.pc = "call"
  /\ pub' = [pub EXCEPT !.pc = "range", !.cur = 0, !.idx = @ + 1]
  /\ last' = Internal("PublishCallReturn")
  /\ UNCHANGED <<handlers, hs, lock, wg, tasks, waiter, crashed, calls, gone>>

\* The methods of the bus a callback body may call; each begins with
\* bus.lock.Lock().
NestedOps == {"Subscribe", "SubscribeOnce", "Unsubscribe", "HasCallback", "Publish"}

\* The body of the synchronous handler being called calls a method of the same
\* bus.  The method's first statement is bus.lock.Lock(); Publish holds that
\* mutex for the whole of its loop, the body included, and a sync.Mutex is not
\* reentrant: the body's thread sleeps in Lock, and the Unlock that would wake
\* it is Publish's own deferred one, which runs only after the body returns.
NestedCall(op) ==
  /\ ~crashed /\ pub.pc = "call" /\ lock
  /\ pub' = [pub EXCEPT !.pc = "blocked"]
  /\ last' = Step(op, pub.topic, NoArg, "blocked")
  /\ UNCHANGED <<handlers, hs, lock, wg, tasks, waiter, crashed, calls, gone>>

WgAddNone(w) == w

\* bus.wg.Add(1)
WgAdd(w) == w + 1

\* Where doPublishAsync begins for a handler: the handler's own lock when
\* transactional, else doPublish (removeHandler first for a once handler).
AfterLock(h) == IF hs[h].flagOnce THEN "find" ELSE "mark"

TaskEntryNoLock(h) == AfterLock(h)

TaskEntry(h) == IF hs[h].transactional THEN "lock" ELSE AfterLock(h)

\* An asynchronous handler: wg.Add(1), then a goroutine is started.
PublishAsync ==
  /\ ~crashed /\ pub.pc = "range" /\ pub.idx <= pub.n
  /\ hs[Current].async
  /\ wg' = WgAdd(wg)
  /\ tasks' = Append(tasks, [h |-> Current, topic |-> pub.topic, nargs |-> pub.nargs,
                             pc |-> TaskEntry(Current), i |-> 0, pubNo |-> pub.no])
  /\ pub' = [pub EXCEPT !.idx = @ + 1]
  /\ last' = Internal("PublishAsync")
  /\ UNCHANGED <<handlers, hs, lock, waiter, crashed, calls, gone>>

PublishReturnWaits ==
  /\ ~crashed /\ pub.pc = "range" /\ pub.idx > pub.n
  /\ \A k \in 1..Len(tasks) : tasks[k].pc = "done"
  /\ lock' = FALSE
  /\ pub' = PublishLeft
  /\ last' = Internal("PublishReturn")
  /\ UNCHANGED <<handlers, hs, wg, tasks, waiter, crashed, calls, gone>>

\* The range loop is over: the deferred Unlock, and Publish returns.
PublishReturn ==
  /\ ~crashed /\ pub.pc = "range" /\ pub.idx > pub.n
  /\ lock' = FALSE
  /\ pub' = PublishLeft
  /\ last' = Internal("PublishReturn")
  /\ UNCHANGED <<handlers, hs, wg, tasks, waiter, crashed, calls, gone>>

\* ------------------------------------------------- doPublishAsync goroutines
\* handler.Lock() of a transactional handler.
TaskLock(k) ==
  /\ ~crashed /\ tasks[k].pc = "lock"
  /\ ~hs[tasks[k].h].mu
  /\ hs' = [hs EXCEPT ![tasks[k].h].mu = TRUE]
  /\ tasks' = [tasks EXCEPT ![k].pc = AfterLock(tasks[k].h)]
  /\ last' = Internal("TaskLock")
  /\ UNCHANGED <<handlers, lock, wg, pub, waiter, crashed, calls, gone>>

\* removeHandler's `i := bus.findHandlerIdx(topic, callback)`, without bus.lock.
TaskFind(k) ==
  /\ ~crashed /\ tasks[k].pc = "find"
  /\ tasks' = [tasks EXCEPT ![k].pc = "remove",
                 ![k].i = findHandlerIdx(handlers, hs, tasks[k].topic,
                                         hs[tasks[k].h].callBack)]
  /\ last' = Internal("TaskFind")
  /\ UNCHANGED <<handlers, hs, lock, wg, pub, waiter, crashed, calls, gone>>

\* removeHandler's `if i >= 0 { bus.handlers[topic] = append(s[:i], s[i+1:]...) }`
\* on the slice as it is now: s[i+1:] panics (slice bounds out of range) when
\* the slice has shrunk below the position found, and nothing in the goroutine
\* recovers.
TaskRemove(k) ==
  /\ ~crashed /\ tasks[k].pc = "remove"
  /\ LET i == tasks[k].i
         s == handlers[tasks[k].topic]
     IN IF i = 0
          THEN /\ tasks' = [tasks EXCEPT ![k].pc = "check"]
               /\ UNCHANGED <<handlers, crashed, gone>>
        ELSE IF i > s.len
          THEN /\ crashed' = TRUE
               /\ tasks' = [tasks EXCEPT ![k].pc = "panic"]
               /\ UNCHANGED <<handlers, gone>>
        ELSE /\ handlers' = [handlers EXCEPT ![tasks[k].topic] = RemoveAt(s, i)]
             /\ gone' = Taken(gone, s, i, "doPublish")
             /\ tasks' = [tasks EXCEPT ![k].pc = "check", ![k].i = 0]
             /\ UNCHANGED crashed
  /\ last' = Internal("TaskRemove")
  /\ UNCHANGED <<hs, lock, wg, pub, waiter, calls>>

\* doPublish's `if handler.called { return }` for a once handler.
TaskCheck(k) ==
  /\ ~crashed /\ tasks[k].pc = "check"
  /\ tasks' = [tasks EXCEPT ![k].pc = IF hs[tasks[k].h].called THEN "exit" ELSE "mark"]
  /\ last' = Internal("TaskCheck")
  /\ UNCHANGED <<handlers, hs, lock, wg, pub, waiter, crashed, calls, gone>>

\* `handler.called = true`, then handler.callBack.Call: the callback body is
\* entered, or Call panics before entering it and the goroutine unwinds.
TaskCall(k) ==
  /\ ~crashed /\ tasks[k].pc = "mark"
  /\ hs' = [hs EXCEPT ![tasks[k].h].called = TRUE]
  /\ IF CallPanics(hs[tasks[k].h].callBack, tasks[k].nargs)
       THEN /\ tasks' = [tasks EXCEPT ![k].pc = "unwind"]
            /\ UNCHANGED calls
       ELSE /\ tasks' = [tasks EXCEPT ![k].pc = "run"]
            /\ calls' = [calls EXCEPT ![tasks[k].h] = @ + 1]
  /\ last' = Internal("TaskCall")
  /\ UNCHANGED <<handlers, lock, wg, pub, waiter, crashed, gone>>

WgDoneNone(w) == w

\* bus.wg.Done()
WgDone(w) == w - 1

\* A Wait released while the process is dying of a panic may or may not get
\* to return before the runtime exits.
Released(w) == {w, [w EXCEPT !.pc = "returned"]}

\* doPublish returns (the body has returned, or the once handler was already
\* called): the deferred handler.Unlock() and bus.wg.Done().  Done on a zero
\* counter panics; Done that reaches zero releases the goroutine in Wait.  The
\* same deferred calls run when Call has panicked; nothing recovers, so the
\* runtime then ends the process.
TaskExit(k) ==
  /\ ~crashed /\ tasks[k].pc \in {"run", "exit", "unwind"}
  /\ hs' = IF hs[tasks[k].h].transactional
             THEN [hs EXCEPT ![tasks[k].h].mu = FALSE] ELSE hs
  /\ IF wg = 0
       THEN /\ crashed' = TRUE
            /\ tasks' = [tasks EXCEPT ![k].pc = "panic"]
            /\ UNCHANGED <<wg, waiter>>
     ELSE IF tasks[k].pc = "unwind"
       THEN /\ wg' = WgDone(wg)
            /\ tasks' = [tasks EXCEPT ![k].pc = "panic"]
            /\ waiter' \in IF wg = 1 /\ waiter.pc = "waiting"
                              THEN Released(waiter) ELSE {waiter}
            /\ crashed' = TRUE
     ELSE /\ wg' = WgDone(wg)
          /\ tasks' = [tasks EXCEPT ![k].pc = "done", ![k].i = 0, ![k].nargs = 0]
          /\ waiter' = IF wg = 1 /\ waiter.pc = "waiting"
                         THEN [waiter EXCEPT !.pc = "returned"] ELSE waiter
          /\ UNCHANGED crashed
  /\ last' = Internal("TaskExit")
  /\ UNCHANGED <<handlers, lock, pub, calls, gone>>

\* ---------------------------------------------------------------- WaitAsync
\* The goroutines started by Publish calls that have returned.
Scheduled == {k \in 1..Len(tasks) : pub.pc = "idle" \/ tasks[k].pubNo < pub.no}

\* bus.wg.Wait(): returns at once on a zero counter, else sleeps until the Done
\* that brings the counter to zero wakes it (TaskExit).
WaitAsync ==
  /\ ~crashed /\ waiter.pc \in {"idle", "returned"}
  /\ waiter' = [pc |-> IF wg = 0 THEN "returned" ELSE "waiting",
                snap |-> Scheduled, no |-> waiter.no + 1]
  /\ last' = Internal("WaitAsync")
  /\ UNCHANGED <<handlers, hs, lock, wg, pub, tasks, crashed, calls, gone>>

\* ------------------------------------------------------------ specification
TaskStep(k) ==
  \/ TaskLock(k)
  \/ TaskFind(k)
  \/ TaskRemove(k)
  \/ TaskCheck(k)
  \/ TaskCall(k)
  \/ TaskExit(k)

\* The callers.  The bounds limit what the callers do, never what the bus does.
\*
\* Spec: threads that register a function in every mode on one topic,
\* unsubscribe it, publish and wait, beside the goroutines Publish starts.
ConcTopics == {"t"}
ConcCallbacks == {"f"}

CanSubscribe == Len(hs) < MaxHandlers

Next ==
  \/ \E t \in ConcTopics, fn \in ConcCallbacks : CanSubscribe /\ Subscribe(t, fn)
  \/ \E t \in ConcTopics, fn \in ConcCallbacks, tx \in BOOLEAN :
       CanSubscribe /\ SubscribeAsync(t, fn, tx)
  \/ \E t \in ConcTopics, fn \in ConcCallbacks : CanSubscribe /\ SubscribeOnce(t, fn)
  \/ \E t \in ConcTopics, fn \in ConcCallbacks : CanSubscribe /\ SubscribeOnceAsync(t, fn)
  \/ \E t \in ConcTopics, fn \in ConcCallbacks : Unsubscribe(t, fn)
  \/ \E t \in ConcTopics : pub.no < MaxPublish /\ PublishBegin(t, NumIn("f"))
  \/ PublishSync
  \/ PublishCallReturn
  \/ Len(tasks) < MaxTasks /\ PublishAsync
  \/ PublishReturn
  \/ \E k \in 1..Len(tasks) : TaskStep(k)
  \/ waiter.no < MaxWaits /\ WaitAsync

Spec == Init /\ [][Next]_vars

\* FairSpec: Spec with every thread of control scheduled: each goroutine keeps
\* running while it can (a handler body returns, a free lock is taken), and
\* the thread inside Publish keeps going.
FairTask(k) == k \in 1..Len(tasks) /\ TaskStep(k)

FairSpec ==
  /\ Spec
  /\ \A k \in 1..MaxTasks : WF_vars(FairTask(k))
  /\ WF_vars(PublishSync \/ PublishCallReturn \/ PublishReturn)
  /\ WF_vars(Len(tasks) < MaxTasks /\ PublishAsync)

\* SyncSpec: one thread that registers functions as synchronous handlers on one
\* topic, unsubscribes and publishes; no goroutine is ever started.
CanSubscribeSync == Len(hs) < MaxSyncHandlers

NextSync ==
  \/ \E t \in ConcTopics, fn \in Callbacks : CanSubscribeSync /\ Subscribe(t, fn)
  \/ \E t \in ConcTopics, fn \in Callbacks : CanSubscribeSync /\ SubscribeOnce(t, fn)
  \/ \E t \in ConcTopics, fn \in Callbacks : Unsubscribe(t, fn)
  \/ \E t \in ConcTopics : HasCallback(t)
  \/ \E t \in ConcTopics : pub.no < MaxSyncPublish /\ PublishBegin(t, NumIn("f"))
  \/ PublishSync
  \/ PublishCallReturn
  \/ PublishReturn

SyncSpec == Init /\ [][NextSync]_vars

\* RegSpec: one thread that passes any value on any topic to the registration
\* calls and never publishes.
CanSubscribeReg == Len(hs) < MaxRegHandlers

NextReg ==
  \/ \E t \in Topics, fn \in Values : CanSubscribeReg /\ Subscribe(t, fn)
  \/ \E t \in Topics, fn \in Values, tx \in BOOLEAN :
       CanSubscribeReg /\ SubscribeAsync(t, fn, tx)
  \/ \E t \in Topics, fn \in Values : CanSubscribeReg /\ SubscribeOnce(t, fn)
  \/ \E t \in Topics, fn \in Values : CanSubscribeReg /\ SubscribeOnceAsync(t, fn)
  \/ \E t \in Topics : HasCallback(t)
  \/ \E t \in Topics, fn \in Values : Unsubscribe(t, fn)

RegSpec == Init /\ [][NextReg]_vars

\* ArgSpec: threads that register a function as an asynchronous handler on one
\* topic, publish with or without an argument and wait, beside the goroutines
\* Publish starts.
CanSubscribeArg == Len(hs) < MaxArgHandlers

NextArg ==
  \/ \E t \in ConcTopics, fn \in ConcCallbacks, tx \in BOOLEAN :
       CanSubscribeArg /\ SubscribeAsync(t, fn, tx)
  \/ \E t \in ConcTopics, fn \in ConcCallbacks : CanSubscribeArg /\ SubscribeOnceAsync(t, fn)
  \/ \E t \in ConcTopics, nargs \in ArgCounts :
       pub.no < MaxArgPublish /\ PublishBegin(t, nargs)
  \/ Len(tasks) < MaxArgTasks /\ PublishAsync
  \/ PublishReturn
  \/ \E k \in 1..Len(tasks) : TaskStep(k)
  \/ waiter.no < MaxArgWaits /\ WaitAsync

ArgSpec == Init /\ [][NextArg]_vars

\* PubSpec: threads that register a function as a synchronous or asynchronous
\* handler on one topic and publish, beside the goroutines Publish starts.  A
\* Publish call is begun only when the goroutines it may start are within the
\* bound.  The thread inside Publish is scheduled and a synchronous body
\* returns; a goroutine is never required to take another step, so the body
\* of an asynchronous handler may run for ever.
CanSubscribePub == Len(hs) < MaxPubHandlers

NextPub ==
  \/ \E t \in ConcTopics, fn \in ConcCallbacks : CanSubscribePub /\ Subscribe(t, fn)
  \/ \E t \in ConcTopics, fn \in ConcCallbacks, tx \in BOOLEAN :
       CanSubscribePub /\ SubscribeAsync(t, fn, tx)
  \/ \E t \in ConcTopics, fn \in ConcCallbacks : CanSubscribePub /\ SubscribeOnceAsync(t, fn)
  \/ \E t \in ConcTopics :
       /\ pub.no < MaxPubPublish
       /\ Len(tasks) + handlers[t].len <= MaxPubTasks
       /\ PublishBegin(t, NumIn("f"))
  \/ PublishSync
  \/ PublishCallReturn
  \/ PublishAsync
  \/ PublishReturn
  \/ \E k \in 1..Len(tasks) : TaskStep(k)

PubSpec ==
  /\ Init /\ [][NextPub]_vars
  /\ WF_vars(PublishSync \/ PublishCallReturn \/ PublishAsync \/ PublishReturn)

\* NestSpec: one thread that registers functions as synchronous handlers on
\* one topic and publishes; a handler's body may call the bus.
CanSubscribeNest == Len(hs) < MaxNestHandlers

NextNest ==
  \/ \E t \in ConcTopics, fn \in Callbacks : CanSubscribeNest /\ Subscribe(t, fn)
  \/ \E t \in ConcTopics, fn \in Callbacks : CanSubscribeNest /\ SubscribeOnce(t, fn)
  \/ \E t \in ConcTopics : pub.no < MaxNestPublish /\ PublishBegin(t, NumIn("f"))
  \/ PublishSync
  \/ \E op \in NestedOps : NestedCall(op)
  \/ PublishCallReturn
  \/ PublishReturn

NestSpec == Init /\ [][NextNest]_vars

\* --------------------------------------------------------------- properties
Ids == 1..Len(hs)
Range(seq) == {seq[j] : j \in 1..Len(seq)}
InList(h) == \E t \in Topics : h \in Range(List(t))
SubscribeOps == {"Subscribe", "SubscribeAsync", "SubscribeOnce", "SubscribeOnceAsync"}

\* Publish's range loop has run to its end: every callback it entered has returned.
LoopDone == pub.pc = "range" /\ pub.idx > pub.n

\* C1: when a Publish call on a topic with synchronous bindings only has run its
\* loop, the callbacks it invoked are exactly the bindings the topic held when
\* the call began, in subscription order, none skipped and none repeated.
C1_SyncPublishInOrder ==
  (LoopDone /\ \A j \in 1..Len(pub.start) : ~hs[pub.start[j]].async)
    => pub.inv = pub.start

\* C2: the callback body of a once binding is never entered a second time,
\* whatever Publish calls and goroutines interleave.
C2_OnceRunsOnce == \A h \in Ids : hs[h].flagOnce => calls[h] <= 1

\* C3: with synchronous bindings only, all on one callback and none
\* unsubscribed, a Publish call invokes the callback once per binding still due:
\* every non-once binding, and every once binding that had not fired before
\* the call (k+m on the first Publish, m on every later one).
C3_InvocationsPerPublish ==
  (/\ LoopDone
   /\ \A h \in Ids : ~hs[h].async /\ gone[h] # "Unsubscribe"
   /\ \A a, b \in Ids : hs[a].callBack = hs[b].callBack)
    => Len(pub.inv) =
         Cardinality({h \in Ids : ~hs[h].flagOnce \/ calls[h] = 0 \/ h \in Range(pub.inv)})

\* C4: no step other than an Unsubscribe call takes a non-once binding out of
\* its topic's list.
C4_NonOnceStays ==
  [][last'.op # "Unsubscribe" =>
       \A h \in Ids : (~hs[h].flagOnce /\ InList(h)) => InList(h)']_vars

\* C5: for a transactional binding, the invocation scheduled by a later Publish
\* call does not begin before the invocation scheduled by an earlier Publish
\* call has run to completion.
C5_TransactionalFifo ==
  \A a, b \in 1..Len(tasks) :
    (/\ hs[tasks[a].h].transactional
     /\ tasks[a].h = tasks[b].h
     /\ tasks[a].pubNo < tasks[b].pubNo
     /\ tasks[b].pc \in {"run", "done"})
      => tasks[a].pc = "done"

\* C6: when WaitAsync has returned, every goroutine started by a Publish call
\* that had returned before WaitAsync was called has finished.
C6_WaitAsyncCoversScheduled ==
  waiter.pc = "returned" => \A k \in waiter.snap : tasks[k].pc = "done"

\* A WaitAsync call that had goroutines of returned Publish calls to cover has returned.
C6_Witness ==
  /\ waiter.pc = "returned"
  /\ waiter.snap # {}
  /\ \E k \in waiter.snap : calls[tasks[k].h] > 0

\* C7: under fair scheduling a WaitAsync call that waits eventually returns.
C7_WaitAsyncReturns == (waiter.pc = "waiting") ~> (waiter.pc = "returned")

\* C8: a once binding that has fired is no longer in its topic's list once
\* Publish has returned (synchronous) or once a WaitAsync that covers its
\* goroutine has returned (asynchronous).
C8_FiredOnceAbsent ==
  \A h \in Ids :
    (/\ hs[h].flagOnce
     /\ calls[h] > 0
     /\ IF hs[h].async
          THEN waiter.pc = "returned" /\ \E k \in waiter.snap : tasks[k].h = h
          ELSE pub.pc = "idle")
      => ~InList(h)

\* C9: a Subscribe* call given a value that is no function returns an error and
\* changes no list; given a function it returns no error and appends exactly
\* one binding, the new one, at the end of that topic's list.
C9_SubscribeValidates ==
  [][last'.op \in SubscribeOps =>
       LET t == last'.topic IN
       IF TypeOfKind(last'.fn) # "Func"
         THEN last'.res = "err" /\ handlers' = handlers
         ELSE /\ last'.res = "nil"
              /\ Len(hs') = Len(hs) + 1
              /\ ListOf(handlers', t) = Append(List(t), Len(hs'))
              /\ \A u \in Topics \ {t} : handlers'[u] = handlers[u]]_vars

\* No binding of topic t has callback cb.
NoMatch(t, cb) == \A j \in 1..handlers[t].len : hs[handlers[t].arr[j]].callBack # cb

\* C10: Unsubscribe(topic, cb) returns an error and changes nothing when the
\* topic has no binding; it returns no error and changes nothing when the topic
\* has bindings and none has callback cb.
C10_UnsubscribeNoOp ==
  [][last'.op = "Unsubscribe" =>
       LET t == last'.topic
           cb == last'.fn
       IN /\ handlers[t].len = 0 =>
               (last'.res = "err" /\ UNCHANGED <<handlers, hs, wg, gone>>)
          /\ (handlers[t].len > 0 /\ NoMatch(t, cb)) =>
               (last'.res = "nil" /\ UNCHANGED <<handlers, hs, wg, gone>>)]_vars

\* Unsubscribe has returned an error on a topic whose bindings were all removed.
C10_Witness ==
  /\ last.op = "Unsubscribe" /\ last.res = "err"
  /\ handlers[last.topic].ok /\ handlers[last.topic].len = 0

\* The sequence of bindings without the first one whose callback is cb.
WithoutFirst(seq, cb) ==
  LET hit == {j \in 1..Len(seq) : hs[seq[j]].callBack = cb}
      m == CHOOSE j \in hit : \A k \in hit : j <= k
  IN SubSeq(seq, 1, m - 1) \o SubSeq(seq, m + 1, Len(seq))

C12_NoLockDuringBody == pub.pc = "call" => ~lock

\* C13: bus.handlers is modified only by a thread that holds bus.lock: a
\* Subscribe*, Unsubscribe or Publish call.  A doPublishAsync goroutine never
\* takes bus.lock, so no step of a goroutine (a step that moves a started
\* goroutine on) changes the map.
C13_MapChangedUnderLock ==
  [][handlers' # handlers =>
       \A k \in 1..Len(tasks) : tasks'[k] = tasks[k]]_vars

\* C14: within one Publish call no binding has its callback invoked twice: the
\* bindings the call has invoked so far are pairwise distinct.
C14_OncePerPublish ==
  \A i, j \in 1..Len(pub.inv) : i # j => pub.inv[i] # pub.inv[j]

\* The goroutine's handler.callBack.Call panicked on its arguments.
CallFailed(k) ==
  /\ tasks[k].pc \in {"unwind", "panic"}
  /\ CallPanics(hs[tasks[k].h].callBack, tasks[k].nargs)

\* C15: a goroutine whose callback could not be called with the published
\* arguments does not end the process: with no once binding registered (so
\* that nothing else can panic) the bus and its goroutines stay alive after
\* such a failure.
C15_AsyncCallFailureContained ==
  (\A h \in Ids : ~hs[h].flagOnce) =>
    \A k \in 1..Len(tasks) : CallFailed(k) => ~crashed

\* C16: the callback body of a binding is never entered after the binding was
\* removed: not after an Unsubscribe call that removed it has returned, and
\* not after it has fired as a once binding; goroutines started by an earlier
\* Publish call included.
C16_RemovedNeverInvoked ==
  [][\A h \in Ids :
       calls'[h] > calls[h] =>
         /\ gone[h] # "Unsubscribe"
         /\ hs[h].flagOnce => calls[h] = 0]_vars

\* C17: Publish never waits for a goroutine it started.  With the thread inside
\* Publish scheduled and no goroutine obliged to take a step, every Publish
\* call that has begun returns, as long as the process is alive.
C17_PublishReturns == (pub.pc # "idle") ~> (pub.pc = "idle" \/ crashed)

\* Publish has returned while the body of an asynchronous handler it started is
\* still running, after a synchronous handler of the same call has run.
C17_Witness ==
  /\ pub.pc = "idle" /\ pub.no > 0 /\ ~crashed
  /\ \E k \in 1..Len(tasks) : tasks[k].pc = "run" /\ tasks[k].pubNo = pub.no
  /\ \E h \in Ids : ~hs[h].async /\ calls[h] > 0

\* C18: HasCallback(topic) returns true exactly when the topic's list holds at
\* least one binding now, false for a topic never subscribed to and for one
\* whose bindings were all removed, and it changes neither the map, nor a
\* binding, nor the WaitGroup counter.
C18_HasCallbackExact ==
  [][last'.op = "HasCallback" =>
       /\ last'.res = IF Len(List(last'.topic)) > 0 THEN "true" ELSE "false"
       /\ UNCHANGED <<handlers, hs, wg, gone>>]_vars

\* HasCallback has returned false on a topic whose bindings were all removed,
\* while the other topic still has one.
C18_Witness ==
  /\ last.op = "HasCallback" /\ last.res = "false"
  /\ handlers[last.topic].ok /\ handlers[last.topic].len = 0
  /\ \E u \in Topics : handlers[u].len > 0

\* The goroutines that are inside the callback body of binding h.
Running(h) == {k \in 1..Len(tasks) : tasks[k].h = h /\ tasks[k].pc = "run"}

\* C19: at most one goroutine at a time is inside the callback body of a
\* transactional binding, under every interleaving.
C19_TransactionalExclusive ==
  \A h \in Ids : hs[h].transactional => Cardinality(Running(h)) <= 1

\* One goroutine is inside the body of a transactional binding while a second
\* goroutine of the same binding waits for the binding's lock.
C19_Witness ==
  \E h \in Ids :
    /\ hs[h].transactional
    /\ Running(h) # {}
    /\ \E k \in 1..Len(tasks) : tasks[k].h = h /\ tasks[k].pc = "lock"

\* The goroutines started by Publish that have not finished.
Unfinished == {k \in 1..Len(tasks) : tasks[k].pc # "done"}

\* C20: while the process is alive the WaitGroup counter is the number of
\* goroutines that Publish has started and that have not finished (Add comes
\* with the start, one Done with the end), and it is never negative.
C20_CounterIsUnfinished ==
  ~crashed => (wg = Cardinality(Unfinished) /\ wg >= 0)

\* Two goroutines were started; one has finished and been counted down, the
\* other is still inside its callback body.
C20_Witness ==
  /\ ~crashed /\ wg = 1
  /\ \E a, b \in 1..Len(tasks) : tasks[a].pc = "done" /\ tasks[b].pc = "run"

\* C21: a synchronous handler whose body calls Subscribe*, Unsubscribe,
\* HasCallback or Publish on the same bus does not deadlock: the body is
\* never left sleeping in the nested call on a lock that only its own
\* Publish call can release.
C21_NestedCallNoDeadlock == ~(pub.pc = "blocked" /\ lock)

====
